---- MODULE Spec2Model ----
(***************************************************************************)
(* Delivery-risk dashboards, the prediction log, the data loader and the   *)
(* retention target of the predictive-analytics repository.                *)
(*                                                                         *)
(* Probabilities and thresholds are kept in percent (0.30 is 30), hours    *)
(* and days are integers, and the prediction log is a sequence of CSV rows.*)
(***************************************************************************)
EXTENDS Integers, Sequences, FiniteSets, TLC

\* ------------------------------------------------------------------ bounds
NumSessions == 2      \* browser sessions served at the same time
MaxRuns == 2          \* script runs of the one session of Spec

Sessions == 1..NumSessions

\* ------------------------------------------------------------- small helpers
NoValue == -1         \* a local that has not been assigned yet
NaN == -999           \* the missing value reindex fills in

Range(f) == {f[i] : i \in DOMAIN f}

RECURSIVE SumSeq(_)
SumSeq(q) == IF q = <<>> THEN 0 ELSE Head(q) + SumSeq(Tail(q))

\* ------------------------------------------------- streamlit_app.py: inputs
\* The columns of the dashboard's input frame, in the order it builds them.
DashboardFeatures ==
    << "purchase_hour", "purchase_dayofweek", "purchase_month",
       "approval_delay_hours", "carrier_delay_hours", "estimated_delivery_days",
       "total_payment_value", "payment_installments" >>

\* The widget defaults, and the widgets at their upper ends.
DefaultInputs == << 12, 2, 6, 2, 12, 7, 150, 1 >>
UpperInputs == << 23, 6, 12, 200, 500, 60, 10000, 24 >>
InputChoices == { DefaultInputs, UpperInputs }

\* The two threshold sliders at their defaults.
DefaultMedium == 30
DefaultHigh == 60

\* Slider positions used by the sessions: the defaults, and the medium slider
\* at its upper end with the high slider at its lower end.
ThresholdChoices == { << DefaultMedium, DefaultHigh >>, << 60, 40 >> }

\* The trained model as a function of the input row: its probability for the
\* default inputs and for the upper inputs.
ProbaChoices ==
    { [i \in InputChoices |-> IF i = DefaultInputs THEN t[1] ELSE t[2]] :
         t \in { << 20, 20 >>, << 45, 70 >>, << 70, 45 >> } }

FeatureOrders ==
    { DashboardFeatures,
      << "total_payment_value", "payment_installments", "purchase_hour",
         "purchase_dayofweek", "purchase_month", "approval_delay_hours",
         "carrier_delay_hours", "estimated_delivery_days" >> }

\* models/delivery_delay_model.pkl as found on disk: loadable or not, the
\* feature_name_ of the model inside it and what the model predicts.
ModelFiles ==
    { [ok |-> TRUE, feature_name_ |-> f, proba |-> m] :
         f \in FeatureOrders, m \in ProbaChoices }
    \cup { [ok |-> TRUE, feature_name_ |-> Append(DashboardFeatures, "customer_state"),
            proba |-> m] : m \in { [i \in InputChoices |-> 20] } }
    \cup { [ok |-> FALSE, feature_name_ |-> << >>,
            proba |-> m] : m \in { [i \in InputChoices |-> 20] } }

\* One user interaction: the script the session runs and the widget state
\* the run reads.
AppRequests ==
    { [script |-> "streamlit_app", medium |-> t[1], high |-> t[2],
       inputs |-> i, button |-> b] :
         t \in ThresholdChoices, i \in InputChoices, b \in BOOLEAN }

TrainingRequests ==
    { [script |-> "model_training", medium |-> DefaultMedium, high |-> DefaultHigh,
       inputs |-> i, button |-> FALSE] : i \in InputChoices }

BasicRequests ==
    { [script |-> "streamlit_app", medium |-> DefaultMedium, high |-> DefaultHigh,
       inputs |-> DefaultInputs, button |-> b] : b \in BOOLEAN }

RECURSIVE SeqsOfLen(_, _)
SeqsOfLen(S, n) ==
    IF n = 0 THEN { << >> }
    ELSE { Append(q, x) : q \in SeqsOfLen(S, n - 1), x \in S }

\* ----------------------------------------------------------------- state
VARIABLES
    model_file,   \* the model artifact on disk
    cached,       \* st.cache_resource holds the result of load_resources
    requests,     \* per session: the interactions still to be served
    pc,           \* per session: where its script run stands
    local,        \* per session: the locals of its script run
    screen,       \* per session: the elements rendered by its run, in order
    log_lock,     \* per session: whether the Lock its run created is held
    log_file,     \* logs/prediction_log.csv: exists, rows
    clock,        \* datetime.now(timezone.utc)
    completed,    \* history: log_prediction calls that returned
    wrote,        \* history, per session: rows its run wrote to the log
    file_at_start, \* history, per session: the log rows when its run began
    delivery,     \* the run of run_delivery_dashboard
    loader,       \* the disk and a DataLoader at work
    retention,    \* a call of create_retention_target
    features,     \* a call of build_retention_features
    engineer,     \* a DeliveryFeatureEngineer and the table it works on
    risk,         \* one evaluation of the risk logic of the delivery dashboards
    panels        \* the runs of the retention and revenue dashboards

appVars == << model_file, cached, requests, pc, local, screen, log_lock,
              log_file, clock, completed, wrote, file_at_start >>

laterVars == << features, engineer, risk, panels >>

nonAppVars == << delivery, loader, retention, laterVars >>

vars == << appVars, nonAppVars >>

\* ------------------------------------------------------- frames and rows
\* A one-row DataFrame: its cells in column order.
Frame(cols, vals) == [i \in 1..Len(cols) |-> [col |-> cols[i], val |-> vals[i]]]

Columns(df) == [i \in 1..Len(df) |-> df[i].col]

Values(df) == [i \in 1..Len(df) |-> df[i].val]

CellOf(df, c) ==
    IF \E i \in 1..Len(df) : df[i].col = c
    THEN (CHOOSE cell \in Range(df) : cell.col = c).val
    ELSE NaN

\* A relabelling: the names cols over the frame's values as they stand.
ReindexByPosition(df, cols) == [i \in 1..Len(cols) |-> [col |-> cols[i], val |-> df[i].val]]

\* DataFrame.reindex(columns=cols): the columns cols in that order, each with
\* the frame's value of that column, NaN for a column the frame lacks.
Reindex(df, cols) == [i \in 1..Len(cols) |-> [col |-> cols[i], val |-> CellOf(df, cols[i])]]

\* EXPECTED_FEATURES = list(model.feature_name_)
EXPECTED_FEATURES == model_file.feature_name_

SchemaMatches(df) == Range(Columns(df)) = Range(EXPECTED_FEATURES)

\* model.predict_proba(input_data)[0][1]: the model's probability for the row,
\* whose values the model takes by feature.
PredictProba(df) ==
    model_file.proba[[i \in 1..Len(DashboardFeatures) |-> CellOf(df, DashboardFeatures[i])]]

\* The risk logic with strict comparisons.
RiskLevelStrict(probability, medium_threshold, high_threshold) ==
    IF probability > high_threshold THEN "High"
    ELSE IF probability > medium_threshold THEN "Medium"
    ELSE "Low"

\* The risk logic of streamlit_app.py.
RiskLevel(probability, medium_threshold, high_threshold) ==
    IF probability >= high_threshold THEN "High"
    ELSE IF probability >= medium_threshold THEN "Medium"
    ELSE "Low"

\* A log entry whose timestamp column is added before its probability column.
LogEntryTimestampFirst(input_data, probability, risk_level, timestamp) ==
    input_data \o << [col |-> "timestamp", val |-> timestamp],
                     [col |-> "risk_level", val |-> risk_level],
                     [col |-> "probability", val |-> probability] >>

\* log_entry: the input frame with probability, risk_level and timestamp added.
LogEntry(input_data, probability, risk_level, timestamp) ==
    input_data \o << [col |-> "probability", val |-> probability],
                     [col |-> "risk_level", val |-> risk_level],
                     [col |-> "timestamp", val |-> timestamp] >>

HeaderRow(df) == [kind |-> "header", cells |-> Columns(df)]

DataRow(df) == [kind |-> "data", cells |-> Values(df)]

IsData(row) == row.kind = "data"

IsHeader(row) == row.kind = "header"

SameRow(a, b) == a.kind = b.kind /\ a.cells = b.cells

IsPrefix(p, q) ==
    /\ Len(p) <= Len(q)
    /\ \A i \in 1..Len(p) : SameRow(p[i], q[i])

DataRows(rows) == SelectSeq(rows, IsData)

\* Writing rows `out` at the start of a file that holds `rows` (a handle opened
\* with mode "w" writes from offset 0, over what is there).
WriteAtStart(rows, out) ==
    out \o (IF Len(rows) > Len(out) THEN SubSeq(rows, Len(out) + 1, Len(rows)) ELSE << >>)

Elem(el, val) == [el |-> el, val |-> val]

Show(s, el, val) == [screen EXCEPT ![s] = Append(@, Elem(el, val))]

Shown(s, el) == \E i \in 1..Len(screen[s]) : screen[s][i].el = el

FreshLocal ==
    [script |-> "none", widgets |-> << >>, medium_threshold |-> NoValue, high_threshold |-> NoValue,
     input_data |-> << >>, button |-> FALSE, probability |-> NoValue,
     level |-> "", log_entry |-> << >>, exists_seen |-> FALSE, mode |-> "",
     shap_failed |-> FALSE, log_df |-> << >>]

\* ------------------------------------------------------------------ Init
\* No model artifact on disk.
NoModelFile == [ok |-> FALSE, feature_name_ |-> << >>, proba |-> [i \in InputChoices |-> 20]]

InitCommon ==
    /\ cached = FALSE
    /\ pc = [s \in Sessions |-> "idle"]
    /\ local = [s \in Sessions |-> FreshLocal]
    /\ screen = [s \in Sessions |-> << >>]
    /\ log_lock = [s \in Sessions |-> FALSE]
    /\ log_file = [exists |-> FALSE, rows |-> << >>]
    /\ clock = 1
    /\ completed = 0
    /\ wrote = [s \in Sessions |-> 0]
    /\ file_at_start = [s \in Sessions |-> << >>]

IdleDelivery == [pc |-> "idle"]

IdleLoader == [pc |-> "idle"]

IdleRetention == [pc |-> "idle"]

\* None of the batch functions or further dashboards is running.
Idle == [pc |-> "idle"]

InitLater ==
    /\ features = Idle
    /\ engineer = Idle
    /\ risk = Idle
    /\ panels = Idle

InitOthers ==
    /\ delivery = IdleDelivery
    /\ loader = IdleLoader
    /\ retention = IdleRetention
    /\ InitLater

\* One session, which runs MaxRuns scripts one after the other.
Init ==
    /\ InitCommon
    /\ InitOthers
    /\ model_file \in ModelFiles
    /\ \E q \in SeqsOfLen(AppRequests \cup TrainingRequests, MaxRuns) :
          requests = [s \in Sessions |-> IF s = 1 THEN q ELSE << >>]

\* The artifacts the concurrent sessions may find: one model per feature list,
\* or none.
SessionModelFiles ==
    { f \in ModelFiles : f.feature_name_ \notin FeatureOrders \/ f.proba[DefaultInputs] = 45 }

\* Every session presses (or not) the button once, with the default widgets.
InitSessions ==
    /\ InitCommon
    /\ InitOthers
    /\ model_file \in SessionModelFiles
    /\ requests \in [Sessions -> { << r >> : r \in BasicRequests }]

\* ------------------------------------------------ streamlit_app.py: a run
Final == { "idle", "done", "halted", "crashed" }

\* The session's next interaction starts a run of its script from the top.
StartRun(s) ==
    /\ pc[s] \in Final
    /\ requests[s] # << >>
    /\ LET r == Head(requests[s]) IN
         /\ local' = [local EXCEPT ![s] =
                         [FreshLocal EXCEPT !.script = r.script, !.widgets = r]]
         /\ pc' = [pc EXCEPT ![s] =
                      IF r.script = "streamlit_app" THEN "load" ELSE "t_load"]
    /\ requests' = [requests EXCEPT ![s] = Tail(@)]
    /\ screen' = [screen EXCEPT ![s] = << >>]
    /\ wrote' = [wrote EXCEPT ![s] = 0]
    /\ file_at_start' = [file_at_start EXCEPT ![s] = log_file.rows]
    /\ UNCHANGED nonAppVars
    /\ UNCHANGED << model_file, cached, log_lock, log_file, clock, completed >>

\* load_resources returns: from the cache, or by loading the artifacts.
LoadOk(s) ==
    /\ pc[s] = "load"
    /\ cached \/ model_file.ok
    /\ cached' = TRUE
    /\ pc' = [pc EXCEPT ![s] = "setup"]
    /\ UNCHANGED nonAppVars
    /\ UNCHANGED << model_file, requests, local, screen, log_lock, log_file,
                    clock, completed, wrote, file_at_start >>

\* A load_resources whose handler shows the error and returns without st.stop.
LoadFailGoesOn(s) ==
    /\ pc[s] = "load"
    /\ ~cached /\ ~model_file.ok
    /\ screen' = Show(s, "error", "Model loading failed")
    /\ pc' = [pc EXCEPT ![s] = "setup"]
    /\ UNCHANGED nonAppVars
    /\ UNCHANGED << model_file, cached, requests, local, log_lock, log_file,
                    clock, completed, wrote, file_at_start >>

\* load_resources raises: st.error, st.stop.
LoadFail(s) ==
    /\ pc[s] = "load"
    /\ ~cached /\ ~model_file.ok
    /\ screen' = Show(s, "error", "Model loading failed")
    /\ pc' = [pc EXCEPT ![s] = "halted"]
    /\ UNCHANGED nonAppVars
    /\ UNCHANGED << model_file, cached, requests, local, log_lock, log_file,
                    clock, completed, wrote, file_at_start >>

\* The lock a run uses: the Lock object its own execution of the script made.
LockOf(s) == s

\* From EXPECTED_FEATURES to the input frame: the run makes its Lock, renders
\* the header, reads the sidebar widgets and builds input_data.
Setup(s) ==
    /\ pc[s] = "setup"
    /\ log_lock' = [log_lock EXCEPT ![LockOf(s)] = FALSE]
    /\ LET w == local[s].widgets IN
         local' = [local EXCEPT ![s].medium_threshold = w.medium,
                                ![s].high_threshold = w.high,
                                ![s].button = w.button,
                                ![s].input_data = Frame(DashboardFeatures, w.inputs)]
    /\ screen' = Show(s, "header", "Delivery Risk Intelligence Platform")
    /\ pc' = [pc EXCEPT ![s] = "schema"]
    /\ UNCHANGED nonAppVars
    /\ UNCHANGED << model_file, cached, requests, log_file, clock, completed,
                    wrote, file_at_start >>

\* Schema validation fails: st.error, st.stop.
SchemaMismatch(s) ==
    /\ pc[s] = "schema"
    /\ ~SchemaMatches(local[s].input_data)
    /\ screen' = Show(s, "error", "Feature mismatch")
    /\ pc' = [pc EXCEPT ![s] = "halted"]
    /\ UNCHANGED nonAppVars
    /\ UNCHANGED << model_file, cached, requests, local, log_lock, log_file,
                    clock, completed, wrote, file_at_start >>

\* Schema validation passes: the frame is reindexed to the model's order.
SchemaOk(s) ==
    /\ pc[s] = "schema"
    /\ SchemaMatches(local[s].input_data)
    /\ local' = [local EXCEPT ![s].input_data = Reindex(@, EXPECTED_FEATURES)]
    /\ pc' = [pc EXCEPT ![s] = "button"]
    /\ UNCHANGED nonAppVars
    /\ UNCHANGED << model_file, cached, requests, screen, log_lock, log_file,
                    clock, completed, wrote, file_at_start >>

\* The button was not pressed: the prediction section is skipped.
NoButton(s) ==
    /\ pc[s] = "button"
    /\ ~local[s].button
    /\ screen' = Show(s, "divider", "")
    /\ pc' = [pc EXCEPT ![s] = "mon_exists"]
    /\ UNCHANGED nonAppVars
    /\ UNCHANGED << model_file, cached, requests, local, log_lock, log_file,
                    clock, completed, wrote, file_at_start >>

\* predict_proba returns the probability of the positive class.
PredictOk(s) ==
    /\ pc[s] = "button"
    /\ local[s].button
    /\ local' = [local EXCEPT ![s].probability = PredictProba(local[s].input_data)]
    /\ pc' = [pc EXCEPT ![s] = "risk"]
    /\ UNCHANGED nonAppVars
    /\ UNCHANGED << model_file, cached, requests, screen, log_lock, log_file,
                    clock, completed, wrote, file_at_start >>

\* A prediction handler that shows the error and goes on to the risk logic.
PredictFailGoesOn(s) ==
    /\ pc[s] = "button"
    /\ local[s].button
    /\ screen' = Show(s, "error", "Prediction failed")
    /\ pc' = [pc EXCEPT ![s] = "risk"]
    /\ UNCHANGED nonAppVars
    /\ UNCHANGED << model_file, cached, requests, local, log_lock, log_file,
                    clock, completed, wrote, file_at_start >>

\* predict_proba raises: st.error, st.stop.
PredictFail(s) ==
    /\ pc[s] = "button"
    /\ local[s].button
    /\ screen' = Show(s, "error", "Prediction failed")
    /\ pc' = [pc EXCEPT ![s] = "halted"]
    /\ UNCHANGED nonAppVars
    /\ UNCHANGED << model_file, cached, requests, local, log_lock, log_file,
                    clock, completed, wrote, file_at_start >>

\* The level of the run.
LevelOf(s) ==
    RiskLevel(local[s].probability, local[s].medium_threshold, local[s].high_threshold)

\* Risk logic and the three metrics of the risk overview.
Risk(s) ==
    /\ pc[s] = "risk"
    /\ local' = [local EXCEPT ![s].level = LevelOf(s)]
    /\ screen' = [screen EXCEPT ![s] =
                     @ \o << Elem("subheader", "Risk Overview"),
                             Elem("metric", "Delay Probability"),
                             Elem("metric", "Risk Score"),
                             Elem("risk_level", LevelOf(s)) >>]
    /\ pc' = [pc EXCEPT ![s] = "log_entry"]
    /\ UNCHANGED nonAppVars
    /\ UNCHANGED << model_file, cached, requests, log_lock, log_file, clock,
                    completed, wrote, file_at_start >>

\* A log entry stamped by a clock that runs backwards.
LogBuildClockBackwards(s) ==
    /\ pc[s] = "log_entry"
    /\ local' = [local EXCEPT ![s].log_entry =
                    LogEntry(local[s].input_data, local[s].probability,
                             local[s].level, 100 - clock)]
    /\ clock' = clock + 1
    /\ pc' = [pc EXCEPT ![s] = "log_acquire"]
    /\ UNCHANGED nonAppVars
    /\ UNCHANGED << model_file, cached, requests, screen, log_lock, log_file,
                    completed, wrote, file_at_start >>

\* log_prediction, up to the lock: the log entry with its timestamp.
LogBuild(s) ==
    /\ pc[s] = "log_entry"
    /\ local' = [local EXCEPT ![s].log_entry =
                    LogEntry(local[s].input_data, local[s].probability,
                             local[s].level, clock)]
    /\ clock' = clock + 1
    /\ pc' = [pc EXCEPT ![s] = "log_acquire"]
    /\ UNCHANGED nonAppVars
    /\ UNCHANGED << model_file, cached, requests, screen, log_lock, log_file,
                    completed, wrote, file_at_start >>

\* with log_lock: the run takes its lock once the lock is free.
LogAcquire(s) ==
    /\ pc[s] = "log_acquire"
    /\ ~log_lock[LockOf(s)]
    /\ log_lock' = [log_lock EXCEPT ![LockOf(s)] = TRUE]
    /\ pc' = [pc EXCEPT ![s] = "log_exists"]
    /\ UNCHANGED nonAppVars
    /\ UNCHANGED << model_file, cached, requests, local, screen, log_file,
                    clock, completed, wrote, file_at_start >>

\* os.path.exists(log_file)
LogExists(s) ==
    /\ pc[s] = "log_exists"
    /\ local' = [local EXCEPT ![s].exists_seen = log_file.exists]
    /\ pc' = [pc EXCEPT ![s] = "log_open"]
    /\ UNCHANGED nonAppVars
    /\ UNCHANGED << model_file, cached, requests, screen, log_lock, log_file,
                    clock, completed, wrote, file_at_start >>

\* to_csv opens the file: mode "a" when the file was seen, mode "w" (which
\* creates or truncates it) when it was not.
LogOpen(s) ==
    /\ pc[s] = "log_open"
    /\ IF local[s].exists_seen
       THEN /\ local' = [local EXCEPT ![s].mode = "a"]
            /\ log_file' = [log_file EXCEPT !.exists = TRUE]
       ELSE /\ local' = [local EXCEPT ![s].mode = "w"]
            /\ log_file' = [exists |-> TRUE, rows |-> << >>]
    /\ pc' = [pc EXCEPT ![s] = "log_write"]
    /\ UNCHANGED nonAppVars
    /\ UNCHANGED << model_file, cached, requests, screen, log_lock, clock,
                    completed, wrote, file_at_start >>

\* to_csv writes and closes: the row at the end of the file in mode "a", the
\* header and the row from the start of the file in mode "w".
LogWrite(s) ==
    /\ pc[s] = "log_write"
    /\ log_file' =
         [log_file EXCEPT !.rows =
            IF local[s].mode = "a"
            THEN Append(@, DataRow(local[s].log_entry))
            ELSE WriteAtStart(@, << HeaderRow(local[s].log_entry),
                                    DataRow(local[s].log_entry) >>)]
    /\ wrote' = [wrote EXCEPT ![s] = @ + 1]
    /\ pc' = [pc EXCEPT ![s] = "log_release"]
    /\ UNCHANGED nonAppVars
    /\ UNCHANGED << model_file, cached, requests, local, screen, log_lock,
                    clock, completed, file_at_start >>

\* The with block ends and log_prediction returns.
LogRelease(s) ==
    /\ pc[s] = "log_release"
    /\ log_lock' = [log_lock EXCEPT ![LockOf(s)] = FALSE]
    /\ completed' = completed + 1
    /\ pc' = [pc EXCEPT ![s] = "alert"]
    /\ UNCHANGED nonAppVars
    /\ UNCHANGED << model_file, cached, requests, local, screen, log_file,
                    clock, wrote, file_at_start >>

\* The alert for the level, and the heading of the explainability section.
Alert(s) ==
    /\ pc[s] = "alert"
    /\ screen' = [screen EXCEPT ![s] =
                     @ \o << Elem("alert", local[s].level), Elem("divider", ""),
                             Elem("subheader", "Explainable AI") >>]
    /\ pc' = [pc EXCEPT ![s] = "shap"]
    /\ UNCHANGED nonAppVars
    /\ UNCHANGED << model_file, cached, requests, local, log_lock, log_file,
                    clock, completed, wrote, file_at_start >>

\* The SHAP chart is drawn.
ShapOk(s) ==
    /\ pc[s] = "shap"
    /\ screen' = [screen EXCEPT ![s] =
                     @ \o << Elem("shap_chart", ""), Elem("divider", "") >>]
    /\ pc' = [pc EXCEPT ![s] = "mon_exists"]
    /\ UNCHANGED nonAppVars
    /\ UNCHANGED << model_file, cached, requests, local, log_lock, log_file,
                    clock, completed, wrote, file_at_start >>

\* A SHAP handler that shows its warning and then calls st.stop.
ShapFailHalts(s) ==
    /\ pc[s] = "shap"
    /\ local' = [local EXCEPT ![s].shap_failed = TRUE]
    /\ screen' = Show(s, "warning", "Explainability unavailable")
    /\ pc' = [pc EXCEPT ![s] = "halted"]
    /\ UNCHANGED nonAppVars
    /\ UNCHANGED << model_file, cached, requests, log_lock, log_file, clock,
                    completed, wrote, file_at_start >>

\* The SHAP step raises: the handler shows a warning and the script goes on
\* after the handler.
ShapFail(s) ==
    /\ pc[s] = "shap"
    /\ local' = [local EXCEPT ![s].shap_failed = TRUE]
    /\ screen' = [screen EXCEPT ![s] =
                     @ \o << Elem("warning", "Explainability unavailable"),
                             Elem("divider", "") >>]
    /\ pc' = [pc EXCEPT ![s] = "mon_exists"]
    /\ UNCHANGED nonAppVars
    /\ UNCHANGED << model_file, cached, requests, log_lock, log_file, clock,
                    completed, wrote, file_at_start >>

\* ------------------------------------------- streamlit_app.py: monitoring
\* The monitoring section finds no log file.
MonNoFile(s) ==
    /\ pc[s] = "mon_exists"
    /\ ~log_file.exists
    /\ screen' = [screen EXCEPT ![s] =
                     @ \o << Elem("subheader", "Risk Monitoring Overview"),
                             Elem("info", "No prediction data available yet.") >>]
    /\ pc' = [pc EXCEPT ![s] = "importance"]
    /\ UNCHANGED nonAppVars
    /\ UNCHANGED << model_file, cached, requests, local, log_lock, log_file,
                    clock, completed, wrote, file_at_start >>

\* The monitoring section finds the log file.
MonExists(s) ==
    /\ pc[s] = "mon_exists"
    /\ log_file.exists
    /\ screen' = Show(s, "subheader", "Risk Monitoring Overview")
    /\ pc' = [pc EXCEPT ![s] = "mon_read"]
    /\ UNCHANGED nonAppVars
    /\ UNCHANGED << model_file, cached, requests, local, log_lock, log_file,
                    clock, completed, wrote, file_at_start >>

\* pd.read_csv(log_file): the rows of the file as they are now; a file without
\* any row makes read_csv raise, and nothing catches it.
MonRead(s) ==
    /\ pc[s] = "mon_read"
    /\ IF log_file.rows = << >>
       THEN /\ screen' = Show(s, "exception", "EmptyDataError")
            /\ pc' = [pc EXCEPT ![s] = "crashed"]
            /\ local' = local
       ELSE /\ local' = [local EXCEPT ![s].log_df = log_file.rows]
            /\ pc' = [pc EXCEPT ![s] = "mon_render"]
            /\ screen' = screen
    /\ UNCHANGED nonAppVars
    /\ UNCHANGED << model_file, cached, requests, log_lock, log_file, clock,
                    completed, wrote, file_at_start >>

\* read_csv takes the first row for the column names and the rest for the data.
FrameColumns(rows) == IF IsHeader(rows[1]) THEN rows[1].cells ELSE << >>

FrameData(rows) == Tail(rows)

ColumnIndex(cols, c) == CHOOSE i \in 1..Len(cols) : cols[i] = c

ColumnOf(rows, c) ==
    [i \in 1..Len(FrameData(rows)) |->
        FrameData(rows)[i].cells[ColumnIndex(FrameColumns(rows), c)]]

\* The alert of the monitoring section: avg_risk > high_threshold, else three
\* or more High rows, else stable.
MonitoringStatus(rows, high_threshold) ==
    LET probs == ColumnOf(rows, "probability")
        levels == ColumnOf(rows, "risk_level")
        high_risk_count == Cardinality({ i \in 1..Len(levels) : levels[i] = "High" })
    IN  IF SumSeq(probs) > high_threshold * Len(probs) THEN "System Alert"
        ELSE IF high_risk_count >= 3 THEN "Multiple high-risk cases"
        ELSE "Monitoring stable"

\* The monitoring metrics, alert and trend chart, or the hint to generate
\* predictions when the frame is empty or has no timestamp column.
MonRender(s) ==
    /\ pc[s] = "mon_render"
    /\ LET rows == local[s].log_df IN
         IF FrameData(rows) # << >> /\ "timestamp" \in Range(FrameColumns(rows))
         THEN screen' = [screen EXCEPT ![s] =
                 @ \o << Elem("monitoring", MonitoringStatus(rows, local[s].high_threshold)),
                         Elem("trend_chart", "") >>]
         ELSE screen' = Show(s, "info", "Generate predictions to activate monitoring.")
    /\ local' = [local EXCEPT ![s].log_df = << >>]
    /\ pc' = [pc EXCEPT ![s] = "importance"]
    /\ UNCHANGED nonAppVars
    /\ UNCHANGED << model_file, cached, requests, log_lock, log_file, clock,
                    completed, wrote, file_at_start >>

\* Global feature importance and the operational summary: the script ends.
Importance(s) ==
    /\ pc[s] = "importance"
    /\ screen' = [screen EXCEPT ![s] =
                     @ \o << Elem("divider", ""), Elem("importance", ""),
                             Elem("divider", ""), Elem("insights", "") >>]
    /\ pc' = [pc EXCEPT ![s] = "done"]
    /\ UNCHANGED nonAppVars
    /\ UNCHANGED << model_file, cached, requests, local, log_lock, log_file,
                    clock, completed, wrote, file_at_start >>

AppStep(s) ==
    \/ StartRun(s)
    \/ LoadOk(s)
    \/ LoadFail(s)
    \/ Setup(s)
    \/ SchemaMismatch(s)
    \/ SchemaOk(s)
    \/ NoButton(s)
    \/ PredictOk(s)
    \/ PredictFail(s)
    \/ Risk(s)
    \/ LogBuild(s)
    \/ LogAcquire(s)
    \/ LogExists(s)
    \/ LogOpen(s)
    \/ LogWrite(s)
    \/ LogRelease(s)
    \/ Alert(s)
    \/ ShapOk(s)
    \/ ShapFail(s)
    \/ MonNoFile(s)
    \/ MonExists(s)
    \/ MonRead(s)
    \/ MonRender(s)
    \/ Importance(s)

\* ------------------------------------- model_training.py: the dashboard
\* Risk classes that split at one half.
TrainingRiskAtHalf(probability) ==
    IF probability >= 50 THEN "High Risk"
    ELSE IF probability >= 30 THEN "Medium Risk"
    ELSE "Low Risk"

\* The fixed risk classes of the model_training dashboard.
TrainingRisk(probability) ==
    IF probability >= 60 THEN "High Risk"
    ELSE IF probability >= 30 THEN "Medium Risk"
    ELSE "Low Risk"

\* load_model, load_feature_importance and load_explainer return; the header
\* is rendered and the sidebar is read into input_data.
TLoadOk(s) ==
    /\ pc[s] = "t_load"
    /\ model_file.ok
    /\ local' = [local EXCEPT ![s].input_data =
                    Frame(DashboardFeatures, local[s].widgets.inputs)]
    /\ screen' = Show(s, "header", "Enterprise Delivery Delay Prediction System")
    /\ pc' = [pc EXCEPT ![s] = "t_predict"]
    /\ UNCHANGED nonAppVars
    /\ UNCHANGED << model_file, cached, requests, log_lock, log_file, clock,
                    completed, wrote, file_at_start >>

\* A loader raises; nothing catches it.
TLoadFail(s) ==
    /\ pc[s] = "t_load"
    /\ ~model_file.ok
    /\ screen' = Show(s, "exception", "load_model")
    /\ pc' = [pc EXCEPT ![s] = "crashed"]
    /\ UNCHANGED nonAppVars
    /\ UNCHANGED << model_file, cached, requests, local, log_lock, log_file,
                    clock, completed, wrote, file_at_start >>

\* predict_proba returns (the frame has as many columns as the model has
\* features): the probability metric, the risk class, the gauge.
TPredictOk(s) ==
    /\ pc[s] = "t_predict"
    /\ Len(local[s].input_data) = Len(model_file.feature_name_)
    /\ LET p == PredictProba(local[s].input_data) IN
         /\ local' = [local EXCEPT ![s].probability = p,
                                   ![s].level = TrainingRisk(p)]
         /\ screen' = [screen EXCEPT ![s] =
                          @ \o << Elem("subheader", "Delay Risk Prediction"),
                                  Elem("metric", "Predicted Delay Probability"),
                                  Elem("risk_level", TrainingRisk(p)),
                                  Elem("gauge", ""), Elem("divider", ""),
                                  Elem("subheader", "Explainable AI") >>]
    /\ pc' = [pc EXCEPT ![s] = "t_shap"]
    /\ UNCHANGED nonAppVars
    /\ UNCHANGED << model_file, cached, requests, log_lock, log_file, clock,
                    completed, wrote, file_at_start >>

\* predict_proba raises; nothing catches it.
TPredictFail(s) ==
    /\ pc[s] = "t_predict"
    /\ screen' = [screen EXCEPT ![s] =
                     @ \o << Elem("subheader", "Delay Risk Prediction"),
                             Elem("exception", "predict_proba") >>]
    /\ pc' = [pc EXCEPT ![s] = "crashed"]
    /\ UNCHANGED nonAppVars
    /\ UNCHANGED << model_file, cached, requests, local, log_lock, log_file,
                    clock, completed, wrote, file_at_start >>

\* The SHAP table is drawn.
TShapOk(s) ==
    /\ pc[s] = "t_shap"
    /\ screen' = [screen EXCEPT ![s] =
                     @ \o << Elem("shap_table", ""), Elem("divider", "") >>]
    /\ pc' = [pc EXCEPT ![s] = "t_importance"]
    /\ UNCHANGED nonAppVars
    /\ UNCHANGED << model_file, cached, requests, local, log_lock, log_file,
                    clock, completed, wrote, file_at_start >>

\* The SHAP step raises: the handler shows an error and the text of the
\* exception, and the script goes on after the handler.
TShapFail(s) ==
    /\ pc[s] = "t_shap"
    /\ local' = [local EXCEPT ![s].shap_failed = TRUE]
    /\ screen' = [screen EXCEPT ![s] =
                     @ \o << Elem("error", "Explainability module could not be generated."),
                             Elem("text", "str(error)"), Elem("divider", "") >>]
    /\ pc' = [pc EXCEPT ![s] = "t_importance"]
    /\ UNCHANGED nonAppVars
    /\ UNCHANGED << model_file, cached, requests, log_lock, log_file, clock,
                    completed, wrote, file_at_start >>

\* Global feature importance and the model overview: the script ends.
TImportance(s) ==
    /\ pc[s] = "t_importance"
    /\ screen' = [screen EXCEPT ![s] =
                     @ \o << Elem("subheader", "Global Model Feature Importance"),
                             Elem("importance", ""), Elem("divider", ""),
                             Elem("overview", "") >>]
    /\ pc' = [pc EXCEPT ![s] = "done"]
    /\ UNCHANGED nonAppVars
    /\ UNCHANGED << model_file, cached, requests, local, log_lock, log_file,
                    clock, completed, wrote, file_at_start >>

TrainingStep(s) ==
    \/ TLoadOk(s)
    \/ TLoadFail(s)
    \/ TPredictOk(s)
    \/ TPredictFail(s)
    \/ TShapOk(s)
    \/ TShapFail(s)
    \/ TImportance(s)

\* ------------------------------------------------------- specifications
Next == \E s \in Sessions : AppStep(s) \/ TrainingStep(s)

Spec == Init /\ [][Next]_vars

NextSessions == \E s \in Sessions : AppStep(s)

SpecSessions == InitSessions /\ [][NextSessions]_vars

\* --------------------------------- delivery_module.py: run_delivery_dashboard
\* The positions of the two threshold sliders, in percent.
MediumPositions == { 10 + 5 * k : k \in 0..10 }

HighPositions == { 40 + 5 * k : k \in 0..11 }

FreshDelivery ==
    [pc |-> "load", medium_threshold |-> NoValue, high_threshold |-> NoValue,
     input_data |-> << >>, button |-> FALSE, probability |-> NoValue,
     risk_score |-> NoValue, status |-> "", screen |-> << >>]

DShow(els) == [delivery EXCEPT !.screen = @ \o els]

\* risk_score = probability * 100: the probability as a percentage, which is
\* the unit probabilities are kept in here.
RiskScore(probability) == probability

\* The status of the risk banner.
BannerStatus(risk_score, medium_threshold, high_threshold) ==
    IF risk_score >= 60 THEN "HIGH RISK"
    ELSE IF risk_score >= 30 THEN "MODERATE RISK"
    ELSE "LOW RISK"

\* load_model returns and the header is rendered.
DLoadOk ==
    /\ delivery.pc = "load"
    /\ model_file.ok
    /\ delivery' = [DShow(<< Elem("header", "Delivery Risk Command Center") >>)
                       EXCEPT !.pc = "sidebar"]
    /\ UNCHANGED << appVars, loader, retention, laterVars >>

\* load_model raises; nothing catches it.
DLoadFail ==
    /\ delivery.pc = "load"
    /\ ~model_file.ok
    /\ delivery' = [DShow(<< Elem("exception", "load_model") >>) EXCEPT !.pc = "crashed"]
    /\ UNCHANGED << appVars, loader, retention, laterVars >>

\* The sidebar: the two threshold sliders, the order parameters, and the input
\* frame reindexed to the model's features; then the button.
DSidebar ==
    /\ delivery.pc = "sidebar"
    /\ \E m \in MediumPositions, h \in HighPositions, i \in InputChoices, b \in BOOLEAN :
         delivery' = [delivery EXCEPT
                         !.medium_threshold = m,
                         !.high_threshold = h,
                         !.input_data = Reindex(Frame(DashboardFeatures, i), EXPECTED_FEATURES),
                         !.button = b,
                         !.pc = "button"]
    /\ UNCHANGED << appVars, loader, retention, laterVars >>

\* The button was not pressed.
DNoButton ==
    /\ delivery.pc = "button"
    /\ ~delivery.button
    /\ delivery' = [delivery EXCEPT !.pc = "global"]
    /\ UNCHANGED << appVars, loader, retention, laterVars >>

\* predict_proba returns; the risk score is computed.
DPredictOk ==
    /\ delivery.pc = "button"
    /\ delivery.button
    /\ LET p == PredictProba(delivery.input_data) IN
         delivery' = [delivery EXCEPT !.probability = p,
                                      !.risk_score = RiskScore(p),
                                      !.pc = "banner"]
    /\ UNCHANGED << appVars, loader, retention, laterVars >>

\* predict_proba raises; nothing catches it.
DPredictFail ==
    /\ delivery.pc = "button"
    /\ delivery.button
    /\ delivery' = [DShow(<< Elem("exception", "predict_proba") >>) EXCEPT !.pc = "crashed"]
    /\ UNCHANGED << appVars, loader, retention, laterVars >>

\* The risk status banner and the gauge.
DBanner ==
    /\ delivery.pc = "banner"
    /\ LET status == BannerStatus(delivery.risk_score, delivery.medium_threshold,
                                  delivery.high_threshold)
       IN  delivery' = [DShow(<< Elem("banner", status), Elem("gauge", ""),
                                 Elem("subheader", "AI Feature Impact Analysis") >>)
                           EXCEPT !.status = status, !.pc = "shap"]
    /\ UNCHANGED << appVars, loader, retention, laterVars >>

\* The SHAP chart is drawn.
DShapOk ==
    /\ delivery.pc = "shap"
    /\ delivery' = [DShow(<< Elem("shap_chart", "") >>) EXCEPT !.pc = "global"]
    /\ UNCHANGED << appVars, loader, retention, laterVars >>

\* The SHAP step raises; nothing catches it.
DShapFail ==
    /\ delivery.pc = "shap"
    /\ delivery' = [DShow(<< Elem("exception", "shap_values") >>) EXCEPT !.pc = "crashed"]
    /\ UNCHANGED << appVars, loader, retention, laterVars >>

\* Global model insights: the function returns.
DGlobal ==
    /\ delivery.pc = "global"
    /\ delivery' = [DShow(<< Elem("subheader", "Global Model Intelligence"),
                             Elem("importance", "") >>) EXCEPT !.pc = "done"]
    /\ UNCHANGED << appVars, loader, retention, laterVars >>

InitDelivery ==
    /\ InitCommon
    /\ model_file \in ModelFiles
    /\ requests = [s \in Sessions |-> << >>]
    /\ delivery = FreshDelivery
    /\ loader = IdleLoader
    /\ retention = IdleRetention
    /\ InitLater

NextDelivery ==
    \/ DLoadOk
    \/ DLoadFail
    \/ DSidebar
    \/ DNoButton
    \/ DPredictOk
    \/ DPredictFail
    \/ DBanner
    \/ DShapOk
    \/ DShapFail
    \/ DGlobal

SpecDelivery == InitDelivery /\ [][NextDelivery]_vars

\* ------------------------------------------------ data_loader.py: DataLoader
\* A load order that reads the customers before the orders.
LoadOrderCustomersFirst ==
    << [key |-> "customers", file |-> "olist_customers_dataset.csv"],
       [key |-> "orders", file |-> "olist_orders_dataset.csv"],
       [key |-> "order_items", file |-> "olist_order_items_dataset.csv"],
       [key |-> "payments", file |-> "olist_order_payments_dataset.csv"],
       [key |-> "reviews", file |-> "olist_order_reviews_dataset.csv"],
       [key |-> "products", file |-> "olist_products_dataset.csv"],
       [key |-> "sellers", file |-> "olist_sellers_dataset.csv"] >>

\* The datasets load_all loads, in the order the dictionary display names them.
LoadOrder ==
    << [key |-> "orders", file |-> "olist_orders_dataset.csv"],
       [key |-> "customers", file |-> "olist_customers_dataset.csv"],
       [key |-> "order_items", file |-> "olist_order_items_dataset.csv"],
       [key |-> "payments", file |-> "olist_order_payments_dataset.csv"],
       [key |-> "reviews", file |-> "olist_order_reviews_dataset.csv"],
       [key |-> "products", file |-> "olist_products_dataset.csv"],
       [key |-> "sellers", file |-> "olist_sellers_dataset.csv"] >>

DataFiles == { LoadOrder[i].file : i \in 1..Len(LoadOrder) }

DatasetKeys == { LoadOrder[i].key : i \in 1..Len(LoadOrder) }

\* The disk before the loader is made: the data directory and the files in it.
LoaderStates ==
    { [pc |-> "new", dir_exists |-> d, files |-> f, idx |-> 0, datasets |-> << >>,
       raised |-> "", result |-> << >>] :
         d \in BOOLEAN, f \in SUBSET DataFiles }

\* DataLoader(data_dir): raises when the directory does not exist.
Construct ==
    /\ loader.pc = "new"
    /\ IF ~loader.dir_exists
       THEN loader' = [loader EXCEPT !.pc = "raised",
                                     !.raised = "FileNotFoundError: Data directory not found"]
       ELSE loader' = [loader EXCEPT !.pc = "load_all", !.idx = 1]
    /\ UNCHANGED << appVars, delivery, retention, laterVars >>

\* Whether _load_csv finds the file.
FileFound(filename) == loader.dir_exists /\ filename \in loader.files

\* The next _load_csv call of load_all: the dataset joins the dictionary being
\* built, or the call raises and load_all is left without a value.
LoadCsv ==
    /\ loader.pc = "load_all"
    /\ loader.idx <= Len(LoadOrder)
    /\ LET d == LoadOrder[loader.idx] IN
         IF FileFound(d.file)
         THEN loader' = [loader EXCEPT !.datasets = Append(@, d.key), !.idx = @ + 1]
         ELSE loader' = [loader EXCEPT !.pc = "raised", !.datasets = << >>,
                                       !.raised = d.file]
    /\ UNCHANGED << appVars, delivery, retention, laterVars >>

\* load_all returns the dictionary.
ReturnDatasets ==
    /\ loader.pc = "load_all"
    /\ loader.idx > Len(LoadOrder)
    /\ loader' = [loader EXCEPT !.pc = "returned", !.result = loader.datasets]
    /\ UNCHANGED << appVars, delivery, retention, laterVars >>

InitLoader ==
    /\ InitCommon
    /\ model_file = NoModelFile
    /\ requests = [s \in Sessions |-> << >>]
    /\ delivery = IdleDelivery
    /\ loader \in LoaderStates
    /\ retention = IdleRetention
    /\ InitLater

NextLoader ==
    \/ Construct
    \/ LoadCsv
    \/ ReturnDatasets

SpecLoader == InitLoader /\ [][NextLoader]_vars

\* ------------------------------ retention_features.py: create_retention_target
MaxOrders == 3        \* rows of the orders table
NumCustomers == 2     \* distinct customer_unique_id values

HoursPerDay == 24

NaT == NaN

Customers == 1..NumCustomers

\* Purchase timestamps, in hours from the first one.
TimeChoices == { 0, 10, 24, 50, 80 }

WindowChoices == { 1, 2 }

OrderRows ==
    { [customer_unique_id |-> c, order_purchase_timestamp |-> ts] :
         c \in Customers, ts \in TimeChoices }

OrderTables == UNION { [1..n -> OrderRows] : n \in 0..MaxOrders }

\* The sort key customer_unique_id, order_purchase_timestamp.
Before(a, b) ==
    \/ a.customer_unique_id < b.customer_unique_id
    \/ /\ a.customer_unique_id = b.customer_unique_id
       /\ a.order_purchase_timestamp <= b.order_purchase_timestamp

RECURSIVE Insert(_, _)
Insert(row, q) ==
    IF q = << >> THEN << row >>
    ELSE IF Before(row, Head(q)) THEN << row >> \o q
    ELSE << Head(q) >> \o Insert(row, Tail(q))

RECURSIVE SortValues(_)
SortValues(q) == IF q = << >> THEN << >> ELSE Insert(Head(q), SortValues(Tail(q)))

\* groupby(customer_unique_id)[order_purchase_timestamp].shift(-1): the
\* timestamp of the next row of the same customer, NaT on a customer's last row.
ShiftedNext(sorted) ==
    [i \in 1..Len(sorted) |->
        IF i < Len(sorted)
           /\ sorted[i + 1].customer_unique_id = sorted[i].customer_unique_id
        THEN sorted[i + 1].order_purchase_timestamp
        ELSE NaT]

\* (next_purchase - order_purchase_timestamp).dt.days: the whole days of the
\* difference, NaN where there is no next purchase.
DaysToNext(sorted, next_purchase) ==
    [i \in 1..Len(sorted) |->
        IF next_purchase[i] = NaT THEN NaN
        ELSE (next_purchase[i] - sorted[i].order_purchase_timestamp) \div HoursPerDay]

\* ((x > 0) & (x <= window_days)).any() over the rows of one customer.
Retained(sorted, days_to_next, window_days, c) ==
    IF \E i \in 1..Len(sorted) :
          /\ sorted[i].customer_unique_id = c
          /\ days_to_next[i] # NaN
          /\ days_to_next[i] > 0
          /\ days_to_next[i] <= window_days
    THEN 1 ELSE 0

CustomersOf(q) == { q[i].customer_unique_id : i \in 1..Len(q) }

RECURSIVE AscendingSeq(_)
AscendingSeq(S) ==
    IF S = { } THEN << >>
    ELSE LET m == CHOOSE x \in S : \A y \in S : x <= y
         IN  << m >> \o AscendingSeq(S \ { m })

\* The grouped result: one row per customer, in key order.
RetentionFrame(sorted, days_to_next, window_days) ==
    LET keys == AscendingSeq(CustomersOf(sorted)) IN
    [k \in 1..Len(keys) |->
        [customer_unique_id |-> keys[k],
         retained |-> Retained(sorted, days_to_next, window_days, keys[k])]]

RetentionCalls ==
    { [pc |-> "start", orders |-> o, window_days |-> w, sorted |-> << >>,
       next_purchase |-> << >>, days_to_next |-> << >>, result |-> << >>] :
         o \in OrderTables, w \in WindowChoices }

\* orders.sort_values([customer_unique_id, order_purchase_timestamp])
RSort ==
    /\ retention.pc = "start"
    /\ retention' = [retention EXCEPT !.sorted = SortValues(retention.orders),
                                      !.pc = "sorted"]
    /\ UNCHANGED << appVars, delivery, loader, laterVars >>

\* orders["next_purchase"] = ...shift(-1)
RShift ==
    /\ retention.pc = "sorted"
    /\ retention' = [retention EXCEPT !.next_purchase = ShiftedNext(retention.sorted),
                                      !.pc = "shifted"]
    /\ UNCHANGED << appVars, delivery, loader, laterVars >>

\* orders["days_to_next"] = ...dt.days
RDays ==
    /\ retention.pc = "shifted"
    /\ retention' = [retention EXCEPT
                        !.days_to_next = DaysToNext(retention.sorted, retention.next_purchase),
                        !.pc = "days"]
    /\ UNCHANGED << appVars, delivery, loader, laterVars >>

\* The groupby, the column names and the return.
RGroup ==
    /\ retention.pc = "days"
    /\ retention' = [retention EXCEPT
                        !.result = RetentionFrame(retention.sorted, retention.days_to_next,
                                                  retention.window_days),
                        !.pc = "done"]
    /\ UNCHANGED << appVars, delivery, loader, laterVars >>

InitRetention ==
    /\ InitCommon
    /\ model_file = NoModelFile
    /\ requests = [s \in Sessions |-> << >>]
    /\ delivery = IdleDelivery
    /\ loader = IdleLoader
    /\ retention \in RetentionCalls
    /\ InitLater

NextRetention ==
    \/ RSort
    \/ RShift
    \/ RDays
    \/ RGroup

SpecRetention == InitRetention /\ [][NextRetention]_vars

\* ------------------------------ retention_features.py: build_retention_features
MaxRows == 2          \* rows of each table handed to build_retention_features

TablesOf(rows) == UNION { [1..n -> rows] : n \in 0..MaxRows }

\* The three tables: purchase timestamps in hours, payment values, review
\* scores. order_id is never null, so its count is the number of rows.
FeatureCalls ==
    LET ids == { 1, 2 } IN
    { [pc |-> "start", orders |-> o, payments |-> p, reviews |-> r,
       rfm |-> << >>, payment_agg |-> << >>, review_agg |-> << >>, result |-> << >>] :
         o \in TablesOf({ [customer_unique_id |-> c, order_purchase_timestamp |-> v] :
                             c \in ids, v \in { 0, 30 } }),
         p \in TablesOf({ [customer_unique_id |-> c, payment_value |-> v] :
                             c \in ids, v \in { 10, 30 } }),
         r \in TablesOf({ [customer_unique_id |-> c, review_score |-> v] :
                             c \in ids, v \in { 4 } }) }

\* One column of one group of groupby("customer_unique_id").
GroupValues(q, c, col) ==
    LET rows == SelectSeq(q, LAMBDA r : r.customer_unique_id = c)
    IN  [i \in 1..Len(rows) |-> rows[i][col]]

\* A frame indexed by the group key: the keys in order, the column names in
\* order, and the cells of each key.
\* orders.groupby(...).agg(count, min, max) with the three column names, then
\* recency_days and customer_lifetime_days in whole days (.dt.days).
RfmFrame(orders) ==
    LET keys == AscendingSeq(CustomersOf(orders))
        stamps(k) == GroupValues(orders, k, "order_purchase_timestamp")
        min(q) == CHOOSE x \in Range(q) : \A y \in Range(q) : x <= y
        max(q) == CHOOSE x \in Range(q) : \A y \in Range(q) : x >= y
        latest == max([i \in 1..Len(orders) |-> orders[i].order_purchase_timestamp])
    IN  [index |-> keys,
         columns |-> << "frequency", "first_purchase", "last_purchase",
                        "recency_days", "customer_lifetime_days" >>,
         data |-> [k \in Range(keys) |->
                      ("frequency" :> Len(stamps(k)))
                      @@ ("first_purchase" :> min(stamps(k)))
                      @@ ("last_purchase" :> max(stamps(k)))
                      @@ ("recency_days" :> (latest - max(stamps(k))) \div HoursPerDay)
                      @@ ("customer_lifetime_days" :>
                             (max(stamps(k)) - min(stamps(k))) \div HoursPerDay)]]

\* payments.groupby(...).agg(sum, mean) with the two column names; the mean in
\* whole units.
PaymentAgg(payments) ==
    LET keys == AscendingSeq(CustomersOf(payments))
        values(k) == GroupValues(payments, k, "payment_value")
    IN  [index |-> keys,
         columns |-> << "total_spent", "avg_order_value" >>,
         data |-> [k \in Range(keys) |->
                      ("total_spent" :> SumSeq(values(k)))
                      @@ ("avg_order_value" :> SumSeq(values(k)) \div Len(values(k)))]]

\* reviews.groupby(...)["review_score"].mean().to_frame("avg_review_score")
ReviewAgg(reviews) ==
    LET keys == AscendingSeq(CustomersOf(reviews))
        values(k) == GroupValues(reviews, k, "review_score")
    IN  [index |-> keys,
         columns |-> << "avg_review_score" >>,
         data |-> [k \in Range(keys) |->
                      ("avg_review_score" :> SumSeq(values(k)) \div Len(values(k)))]]

\* left.join(right): the left frame's keys, the right frame's columns added,
\* missing where the right frame has no such key.
JoinFrames(left, right) ==
    [index |-> left.index,
     columns |-> left.columns \o right.columns,
     data |-> [k \in DOMAIN left.data |->
                  left.data[k]
                  @@ [c \in Range(right.columns) |->
                         IF k \in DOMAIN right.data THEN right.data[k][c] ELSE NaN]]]

DropColumns(df, cols) ==
    [index |-> df.index,
     columns |-> SelectSeq(df.columns, LAMBDA c : c \notin cols),
     data |-> [k \in DOMAIN df.data |->
                  [c \in Range(df.columns) \ cols |-> df.data[k][c]]]]

FillnaKeepsMissing(df, value) == df

Fillna(df, value) ==
    [index |-> df.index,
     columns |-> df.columns,
     data |-> [k \in DOMAIN df.data |->
                  [c \in DOMAIN df.data[k] |->
                      IF df.data[k][c] = NaN THEN value ELSE df.data[k][c]]]]

\* reset_index(): the key becomes the first column, the rows are numbered.
ResetIndex(df, name) ==
    [columns |-> << name >> \o df.columns,
     rows |-> [i \in 1..Len(df.index) |-> (name :> df.index[i]) @@ df.data[df.index[i]]]]

FRfm ==
    /\ features.pc = "start"
    /\ features' = [features EXCEPT !.rfm = RfmFrame(features.orders), !.pc = "rfm"]
    /\ UNCHANGED << appVars, delivery, loader, retention, engineer, risk, panels >>

FPayments ==
    /\ features.pc = "rfm"
    /\ features' = [features EXCEPT !.payment_agg = PaymentAgg(features.payments),
                                    !.pc = "payments"]
    /\ UNCHANGED << appVars, delivery, loader, retention, engineer, risk, panels >>

FReviews ==
    /\ features.pc = "payments"
    /\ features' = [features EXCEPT !.review_agg = ReviewAgg(features.reviews),
                                    !.pc = "reviews"]
    /\ UNCHANGED << appVars, delivery, loader, retention, engineer, risk, panels >>

\* The joins, the drop of the datetime columns, fillna(0), reset_index, return.
FMerge ==
    /\ features.pc = "reviews"
    /\ LET joined == JoinFrames(JoinFrames(features.rfm, features.payment_agg),
                                features.review_agg)
           dropped == DropColumns(joined, { "first_purchase", "last_purchase" })
       IN  features' = [features EXCEPT
                           !.result = ResetIndex(Fillna(dropped, 0), "customer_unique_id"),
                           !.pc = "done"]
    /\ UNCHANGED << appVars, delivery, loader, retention, engineer, risk, panels >>

InitFeatures ==
    /\ InitCommon
    /\ model_file = NoModelFile
    /\ requests = [s \in Sessions |-> << >>]
    /\ delivery = IdleDelivery
    /\ loader = IdleLoader
    /\ retention = IdleRetention
    /\ features \in FeatureCalls
    /\ engineer = Idle
    /\ risk = Idle
    /\ panels = Idle

NextFeatures ==
    \/ FRfm
    \/ FPayments
    \/ FReviews
    \/ FMerge

SpecFeatures == InitFeatures /\ [][NextFeatures]_vars

\* --------------------------- feature_engineering.py: DeliveryFeatureEngineer
FEATURE_COLUMNS ==
    << "purchase_hour", "purchase_dayofweek", "purchase_month",
       "approval_delay_hours", "carrier_delay_hours", "estimated_delivery_days",
       "total_payment_value", "payment_installments", "customer_state" >>

DATETIME_COLUMNS ==
    << "order_purchase_timestamp", "order_approved_at", "order_delivered_carrier_date",
       "order_delivered_customer_date", "order_estimated_delivery_date" >>

\* pd.to_datetime(errors="coerce"): the hours since 2018-01-01 00:00:00, a
\* Monday, and NaT for a cell that is no timestamp.
ToDatetime(cell) ==
    LET stamp == ("2018-01-01 00:00:00" :> 0) @@ ("2018-01-01 01:00:00" :> 1)
                 @@ ("2018-01-02 01:00:00" :> 25) @@ ("2018-01-05 00:00:00" :> 96)
                 @@ ("2018-01-11 00:00:00" :> 240) @@ ("2018-01-15 00:00:00" :> 336)
                 @@ ("2018-01-20 00:00:00" :> 456)
    IN  IF cell \in DOMAIN stamp THEN stamp[cell] ELSE NaT

\* self.df[name] = ... for several names: each column is added at the end, or
\* replaced in place. origin records the input columns each column was
\* computed from.
AddColumns(df, names, cells, from) ==
    [columns |-> df.columns \o SelectSeq(names, LAMBDA c : c \notin Range(df.columns)),
     rows |-> [i \in 1..Len(df.rows) |->
                  cells[i] @@ [c \in DOMAIN df.rows[i] \ Range(names) |-> df.rows[i][c]]],
     origin |-> from @@ [c \in DOMAIN df.origin \ Range(names) |-> df.origin[c]]]

\* A new engineer with the defaults of __init__, or with predict_before_delivery
\* False, and the tables of one use of it: X for transform, payments_df and
\* customers_df for merge_additional_data. The caller either calls transform
\* or drives the steps itself and merges before asking for the final dataset.
EngineerCalls ==
    LET cells == [order_purchase_timestamp : { "2018-01-01 00:00:00" },
                  order_approved_at : { "2018-01-01 01:00:00", "2018-01-15 00:00:00", "" },
                  order_delivered_carrier_date : { "2018-01-02 01:00:00" },
                  order_delivered_customer_date :
                      { "2018-01-05 00:00:00", "2018-01-20 00:00:00", "" },
                  order_estimated_delivery_date : { "2018-01-11 00:00:00" }]
        names == << "order_id", "customer_id" >> \o DATETIME_COLUMNS
        X(t) == [columns |-> names,
                 rows |-> [i \in 1..Len(t) |->
                              ("order_id" :> i) @@ ("customer_id" :> i)
                              @@ [c \in Range(DATETIME_COLUMNS) |-> t[i][c]]],
                 origin |-> [c \in Range(names) |-> { c }]]
    IN  { [pc |-> "start", call |-> call, predict_before_delivery |-> b,
           max_approval_hours |-> 168, max_carrier_hours |-> 720, max_delivery_days |-> 60,
           df |-> X(t), payments_df |-> p, customers_df |-> c, result |-> << >>] :
             call \in { "transform", "steps" }, b \in BOOLEAN, t \in TablesOf(cells),
             p \in { << >>,
                     << [order_id |-> 1, payment_value |-> 10, payment_installments |-> 2],
                        [order_id |-> 1, payment_value |-> 30, payment_installments |-> 1] >> },
             c \in { << >>, << [customer_id |-> 1, customer_state |-> "SP"] >> } }

\* _parse_datetimes
EParse ==
    /\ engineer.pc = "start"
    /\ engineer' = [engineer EXCEPT
          !.df.rows = [i \in 1..Len(@) |->
                          [c \in DOMAIN @[i] |->
                              IF c \in Range(DATETIME_COLUMNS) /\ c \in Range(engineer.df.columns)
                              THEN ToDatetime(@[i][c]) ELSE @[i][c]]],
          !.pc = "parsed"]
    /\ UNCHANGED << appVars, delivery, loader, retention, features, risk, panels >>

\* _create_target: dropna on the two dates, then is_delayed.
ETarget ==
    /\ engineer.pc = "parsed"
    /\ LET dates == { "order_delivered_customer_date", "order_estimated_delivery_date" }
           kept == SelectSeq(engineer.df.rows, LAMBDA r : \A c \in dates : r[c] # NaT)
           late(r) == IF r["order_delivered_customer_date"] > r["order_estimated_delivery_date"]
                      THEN 1 ELSE 0
       IN  engineer' = [engineer EXCEPT
                           !.df = IF dates \subseteq Range(engineer.df.columns)
                                  THEN AddColumns([engineer.df EXCEPT !.rows = kept],
                                                  << "is_delayed" >>,
                                                  [i \in 1..Len(kept) |->
                                                      "is_delayed" :> late(kept[i])],
                                                  "is_delayed" :> dates)
                                  ELSE @,
                           !.pc = "target"]
    /\ UNCHANGED << appVars, delivery, loader, retention, features, risk, panels >>

\* Time features that include total_delivery_days whatever the flag says.
ETimeFeaturesAlways ==
    /\ engineer.pc = "target"
    /\ LET hours(r, a, b) == IF r[a] = NaT \/ r[b] = NaT THEN NaN ELSE r[a] - r[b]
           days(r, a, b) == IF hours(r, a, b) = NaN THEN NaN ELSE hours(r, a, b) \div HoursPerDay
           p == "order_purchase_timestamp"
           approved == "order_approved_at"
           estimated == "order_estimated_delivery_date"
           delivered == "order_delivered_customer_date"
           cells(r) ==
               ("purchase_hour" :> IF r[p] = NaT THEN NaN ELSE r[p] % HoursPerDay)
               @@ ("purchase_dayofweek" :>
                      IF r[p] = NaT THEN NaN ELSE (r[p] \div HoursPerDay) % 7)
               @@ ("purchase_month" :>
                      IF r[p] = NaT THEN NaN ELSE IF r[p] < 31 * HoursPerDay THEN 1 ELSE 2)
               @@ ("approval_delay_hours" :> hours(r, approved, p))
               @@ ("carrier_delay_hours" :> hours(r, "order_delivered_carrier_date", approved))
               @@ ("estimated_delivery_days" :> days(r, estimated, p))
               @@ ("total_delivery_days" :> days(r, delivered, p))
           from ==
               ("purchase_hour" :> { p }) @@ ("purchase_dayofweek" :> { p })
               @@ ("purchase_month" :> { p })
               @@ ("approval_delay_hours" :> { approved, p })
               @@ ("carrier_delay_hours" :> { "order_delivered_carrier_date", approved })
               @@ ("estimated_delivery_days" :> { estimated, p })
               @@ ("total_delivery_days" :> { delivered, p })
           names == << "purchase_hour", "purchase_dayofweek", "purchase_month",
                       "approval_delay_hours", "carrier_delay_hours",
                       "estimated_delivery_days" >>
                    \o << "total_delivery_days" >>
       IN  engineer' = [engineer EXCEPT
               !.df = AddColumns(@, names,
                                 [i \in 1..Len(engineer.df.rows) |->
                                     [c \in Range(names) |-> cells(engineer.df.rows[i])[c]]],
                                 [c \in Range(names) |-> from[c]]),
               !.pc = "timed"]
    /\ UNCHANGED << appVars, delivery, loader, retention, features, risk, panels >>

\* _create_time_features: the timestamps lie in January 2018 or February 2018,
\* and the day differences of the inputs are whole days.
ETimeFeatures ==
    /\ engineer.pc = "target"
    /\ LET hours(r, a, b) == IF r[a] = NaT \/ r[b] = NaT THEN NaN ELSE r[a] - r[b]
           days(r, a, b) == IF hours(r, a, b) = NaN THEN NaN ELSE hours(r, a, b) \div HoursPerDay
           p == "order_purchase_timestamp"
           approved == "order_approved_at"
           estimated == "order_estimated_delivery_date"
           delivered == "order_delivered_customer_date"
           cells(r) ==
               ("purchase_hour" :> IF r[p] = NaT THEN NaN ELSE r[p] % HoursPerDay)
               @@ ("purchase_dayofweek" :>
                      IF r[p] = NaT THEN NaN ELSE (r[p] \div HoursPerDay) % 7)
               @@ ("purchase_month" :>
                      IF r[p] = NaT THEN NaN ELSE IF r[p] < 31 * HoursPerDay THEN 1 ELSE 2)
               @@ ("approval_delay_hours" :> hours(r, approved, p))
               @@ ("carrier_delay_hours" :> hours(r, "order_delivered_carrier_date", approved))
               @@ ("estimated_delivery_days" :> days(r, estimated, p))
               @@ ("total_delivery_days" :> days(r, delivered, p))
           from ==
               ("purchase_hour" :> { p }) @@ ("purchase_dayofweek" :> { p })
               @@ ("purchase_month" :> { p })
               @@ ("approval_delay_hours" :> { approved, p })
               @@ ("carrier_delay_hours" :> { "order_delivered_carrier_date", approved })
               @@ ("estimated_delivery_days" :> { estimated, p })
               @@ ("total_delivery_days" :> { delivered, p })
           names == << "purchase_hour", "purchase_dayofweek", "purchase_month",
                       "approval_delay_hours", "carrier_delay_hours",
                       "estimated_delivery_days" >>
                    \o (IF ~engineer.predict_before_delivery THEN << "total_delivery_days" >> ELSE << >>)
       IN  engineer' = [engineer EXCEPT
               !.df = AddColumns(@, names,
                                 [i \in 1..Len(engineer.df.rows) |->
                                     [c \in Range(names) |-> cells(engineer.df.rows[i])[c]]],
                                 [c \in Range(names) |-> from[c]]),
               !.pc = "timed"]
    /\ UNCHANGED << appVars, delivery, loader, retention, features, risk, panels >>

\* _clean_data: between() is inclusive and False on a missing value.
EClean ==
    /\ engineer.pc = "timed"
    /\ LET between(x, lo, hi) == x # NaN /\ lo <= x /\ x <= hi
           keep(r) ==
               /\ between(r["approval_delay_hours"], 0, engineer.max_approval_hours)
               /\ between(r["carrier_delay_hours"], 0, engineer.max_carrier_hours)
               /\ between(r["estimated_delivery_days"], 0, engineer.max_delivery_days)
       IN  engineer' = [engineer EXCEPT !.df.rows = SelectSeq(@, keep), !.pc = "cleaned"]
    /\ UNCHANGED << appVars, delivery, loader, retention, features, risk, panels >>

\* merge_additional_data: the payments grouped by order_id, two left merges,
\* and the three fillna(inplace=True) on a column selection, which fill the
\* table or a copy of it, as the installed pandas has it.
EMerge ==
    /\ engineer.pc = "cleaned"
    /\ engineer.call = "steps"
    /\ \E filled \in BOOLEAN :
          LET pay(r) == SelectSeq(engineer.payments_df, LAMBDA q : q.order_id = r["order_id"])
              max(q) == CHOOSE x \in Range(q) : \A y \in Range(q) : x >= y
              fill(x, value) == IF filled /\ x = NaN THEN value ELSE x
              value(r) ==
                  IF pay(r) = << >> THEN NaN
                  ELSE SumSeq([i \in 1..Len(pay(r)) |-> pay(r)[i].payment_value])
              installments(r) ==
                  IF pay(r) = << >> THEN NaN
                  ELSE max([i \in 1..Len(pay(r)) |-> pay(r)[i].payment_installments])
              state(r) ==
                  LET found == SelectSeq(engineer.customers_df,
                                         LAMBDA q : q.customer_id = r["customer_id"])
                  IN  IF found = << >> THEN fill(NaN, "Unknown") ELSE found[1].customer_state
              cells(r) ==
                  ("total_payment_value" :> fill(value(r), 0))
                  @@ ("payment_installments" :> fill(installments(r), 1))
                  @@ ("customer_state" :> state(r))
          IN  engineer' = [engineer EXCEPT
                  !.df = AddColumns(@, << "total_payment_value", "payment_installments",
                                          "customer_state" >>,
                                    [i \in 1..Len(engineer.df.rows) |->
                                        cells(engineer.df.rows[i])],
                                    ("total_payment_value" :> { "payments_df.payment_value" })
                                    @@ ("payment_installments" :>
                                           { "payments_df.payment_installments" })
                                    @@ ("customer_state" :> { "customers_df.customer_state" })),
                  !.pc = "merged"]
    /\ UNCHANGED << appVars, delivery, loader, retention, features, risk, panels >>

\* _get_final_dataset, every listed column being in the table.
EFinalOk ==
    /\ \/ engineer.pc = "cleaned" /\ engineer.call = "transform"
       \/ engineer.pc = "merged"
    /\ LET final_columns ==
               FEATURE_COLUMNS \o (IF "is_delayed" \in Range(engineer.df.columns)
                                   THEN << "is_delayed" >> ELSE << >>)
       IN  /\ Range(final_columns) \subseteq Range(engineer.df.columns)
           /\ engineer' = [engineer EXCEPT
                 !.result =
                     [columns |-> final_columns,
                      rows |-> [i \in 1..Len(engineer.df.rows) |->
                                   [c \in Range(final_columns) |-> engineer.df.rows[i][c]]],
                      origin |-> [c \in Range(final_columns) |-> engineer.df.origin[c]]],
                 !.pc = "done"]
    /\ UNCHANGED << appVars, delivery, loader, retention, features, risk, panels >>

\* _get_final_dataset: self.df[final_columns] raises KeyError for a column
\* that is not in the table.
EFinalRaise ==
    /\ \/ engineer.pc = "cleaned" /\ engineer.call = "transform"
       \/ engineer.pc = "merged"
    /\ ~(Range(FEATURE_COLUMNS) \subseteq Range(engineer.df.columns))
    /\ engineer' = [engineer EXCEPT !.pc = "raised"]
    /\ UNCHANGED << appVars, delivery, loader, retention, features, risk, panels >>

InitEngineer ==
    /\ InitCommon
    /\ model_file = NoModelFile
    /\ requests = [s \in Sessions |-> << >>]
    /\ delivery = IdleDelivery
    /\ loader = IdleLoader
    /\ retention = IdleRetention
    /\ features = Idle
    /\ engineer \in EngineerCalls
    /\ risk = Idle
    /\ panels = Idle

NextEngineer ==
    \/ EParse
    \/ ETarget
    \/ ETimeFeatures
    \/ EClean
    \/ EMerge
    \/ EFinalOk
    \/ EFinalRaise

SpecEngineer == InitEngineer /\ [][NextEngineer]_vars

\* ------------------------------------ the risk logic of the three dashboards
\* The risk class of streamlit_app.py for one probability and one position of
\* its two sliders.
RApp ==
    /\ risk.pc = "start"
    /\ risk' = [risk EXCEPT
                   !.level = RiskLevel(risk.probability, risk.medium_threshold,
                                       risk.high_threshold),
                   !.pc = "app"]
    /\ UNCHANGED << appVars, delivery, loader, retention, features, engineer, panels >>

\* The class the model_training dashboard gives the same probability.
RTraining ==
    /\ risk.pc = "app"
    /\ risk' = [risk EXCEPT !.training = TrainingRisk(risk.probability), !.pc = "training"]
    /\ UNCHANGED << appVars, delivery, loader, retention, features, engineer, panels >>

\* The banner of run_delivery_dashboard for the same probability and sliders.
RDelivery ==
    /\ risk.pc = "training"
    /\ risk' = [risk EXCEPT
                   !.status = BannerStatus(RiskScore(risk.probability),
                                           risk.medium_threshold, risk.high_threshold),
                   !.pc = "done"]
    /\ UNCHANGED << appVars, delivery, loader, retention, features, engineer, panels >>

\* Any probability in percent and any position of the two sliders.
InitRisk ==
    /\ InitCommon
    /\ model_file = NoModelFile
    /\ requests = [s \in Sessions |-> << >>]
    /\ delivery = IdleDelivery
    /\ loader = IdleLoader
    /\ retention = IdleRetention
    /\ features = Idle
    /\ engineer = Idle
    /\ risk \in [pc : { "start" }, probability : 0..100,
                 medium_threshold : MediumPositions, high_threshold : HighPositions,
                 level : { "" }, training : { "" }, status : { "" }]
    /\ panels = Idle

NextRisk ==
    \/ RApp
    \/ RTraining
    \/ RDelivery

SpecRisk == InitRisk /\ [][NextRisk]_vars

\* ---------------- retention_module.py and revenue_module.py: the dashboards
GlobalSampleSize == 1000

SelectSampleSize == 300

NumClusters == 4

PShow(els) == [panels EXCEPT !.screen = @ \o els]

\* run_retention_dashboard up to the local SHAP plot: the model, the explainer
\* and the features load, every customer gets a probability, the five most
\* likely are listed, and the selected customer is predicted and explained.
PRetentionStart ==
    /\ panels.pc = "start"
    /\ panels.dashboard = "retention"
    /\ LET top == IF panels.customers < 5 THEN panels.customers ELSE 5
           status == IF panels.probability < 30 THEN Elem("error", "High Churn Risk")
                     ELSE IF panels.probability < 60 THEN Elem("warning", "Moderate Risk")
                     ELSE Elem("success", "Likely to Retain")
       IN  panels' = [PShow(<< Elem("title", "Customer Lifecycle Intelligence"),
                               Elem("subheader", "Top Likely To Retain Customers"),
                               Elem("dataframe", top),
                               Elem("divider", ""),
                               Elem("selectbox", panels.selected),
                               Elem("metric", "Retention Probability (%)"),
                               status,
                               Elem("subheader", "Why this prediction?"),
                               Elem("pyplot", "fig_local") >>)
                        EXCEPT !.pc = "global"]
    /\ UNCHANGED << appVars, delivery, loader, retention, features, engineer, risk >>

\* The global SHAP section: DataFrame.sample(1000) draws without replacement
\* and raises ValueError on a table with fewer rows; nothing catches it.
PRetentionGlobal ==
    /\ panels.pc = "global"
    /\ panels' =
          IF panels.customers < GlobalSampleSize
          THEN [PShow(<< Elem("subheader", "Global Retention Drivers"),
                         Elem("exception", "ValueError") >>) EXCEPT !.pc = "crashed"]
          ELSE [PShow(<< Elem("subheader", "Global Retention Drivers"),
                         Elem("pyplot", "fig_global") >>) EXCEPT !.pc = "done"]
    /\ UNCHANGED << appVars, delivery, loader, retention, features, engineer, risk >>

\* run_revenue_dashboard up to the third tab: the styling, then load_rfm, in
\* which KMeans(n_clusters=4) raises ValueError on fewer than four customers,
\* then the header, the four KPIs and the charts of the first two tabs.
PRevenueStart ==
    /\ panels.pc = "start"
    /\ panels.dashboard = "revenue"
    /\ panels' =
          IF panels.customers < NumClusters
          THEN [PShow(<< Elem("markdown", "style"), Elem("exception", "ValueError") >>)
                   EXCEPT !.pc = "crashed"]
          ELSE [PShow(<< Elem("markdown", "style"),
                         Elem("markdown", "Enterprise Customer Revenue Intelligence"),
                         Elem("metric", "Total Customers"),
                         Elem("tabs", 3),
                         Elem("plotly_chart", "fig_dist"),
                         Elem("plotly_chart", "fig_rev"),
                         Elem("subheader", "3D Behavioral Segmentation Map"),
                         Elem("plotly_chart", "fig_3d") >>)
                   EXCEPT !.pc = "profile"]
    /\ UNCHANGED << appVars, delivery, loader, retention, features, engineer, risk >>

\* The customer profile panel: Series.sample(300) raises ValueError on fewer
\* than 300 customers; otherwise the selected customer's metrics are shown.
PRevenueProfile ==
    /\ panels.pc = "profile"
    /\ panels' =
          IF panels.customers < SelectSampleSize
          THEN [PShow(<< Elem("subheader", "Customer Intelligence Profile"),
                         Elem("exception", "ValueError") >>) EXCEPT !.pc = "crashed"]
          ELSE [PShow(<< Elem("subheader", "Customer Intelligence Profile"),
                         Elem("selectbox", panels.selected),
                         Elem("metric", "Segment"),
                         Elem("info", "This customer belongs to") >>)
                   EXCEPT !.pc = "done"]
    /\ UNCHANGED << appVars, delivery, loader, retention, features, engineer, risk >>

\* One run of either dashboard: the number of customers of its table, the
\* customer the select box holds, and the model's probability for a customer.
InitPanels ==
    /\ InitCommon
    /\ model_file = NoModelFile
    /\ requests = [s \in Sessions |-> << >>]
    /\ delivery = IdleDelivery
    /\ loader = IdleLoader
    /\ retention = IdleRetention
    /\ features = Idle
    /\ engineer = Idle
    /\ risk = Idle
    /\ \E n \in { 1, 3, 4, 5, 299, 300, 999, 1000, 1001 } :
          panels \in [pc : { "start" }, dashboard : { "retention", "revenue" },
                      customers : { n }, selected : { 1, n },
                      probability : { 20, 45, 70 }, screen : { << >> }]

NextPanels ==
    \/ PRetentionStart
    \/ PRetentionGlobal
    \/ PRevenueStart
    \/ PRevenueProfile

SpecPanels == InitPanels /\ [][NextPanels]_vars

\* ================================================================ claims
ShownText(s, el, val) == \E i \in 1..Len(screen[s]) : screen[s][i] = Elem(el, val)

IsApp(s) == local[s].script = "streamlit_app"

IsTraining(s) == local[s].script = "model_training"

\* Between the os.path.exists check and the end of the to_csv write.
InCritical(s) == pc[s] \in { "log_exists", "log_open", "log_write" }

InLogPrediction(s) ==
    pc[s] \in { "log_entry", "log_acquire", "log_exists", "log_open", "log_write",
                "log_release" }

\* C1: at most one request at a time is between the exists check and the end
\* of the write of log_prediction.
C1_OneWriterAtATime == Cardinality({ s \in Sessions : InCritical(s) }) <= 1

\* C2: the log is append-only: every step leaves the rows that were in the
\* file where they were, as a prefix of the rows after the step.
C2_AppendOnly == [][IsPrefix(log_file.rows, log_file'.rows)]_vars

\* C3: starting without a log file, once n >= 1 log_prediction calls have
\* returned and none is under way, the file is one header row followed by
\* exactly n data rows.
C3_OneHeaderThenRows ==
    (completed >= 1 /\ \A s \in Sessions : ~InLogPrediction(s)) =>
        /\ Len(log_file.rows) = completed + 1
        /\ IsHeader(log_file.rows[1])
        /\ \A i \in 2..Len(log_file.rows) : IsData(log_file.rows[i])

\* The value the user entered for feature f in the run of session s.
Entered(s, f) == local[s].widgets.inputs[ColumnIndex(DashboardFeatures, f)]

LastRow == log_file.rows[Len(log_file.rows)]

\* C4: the row a run has just written holds the entered features in the order
\* of EXPECTED_FEATURES, then the probability, then the risk level the run
\* displayed (the level of that probability under the run's two thresholds),
\* then the timestamp; a header it wrote names the columns in the same order.
C4_RowOfRun ==
    \A s \in Sessions : pc[s] = "log_release" =>
        LET n == Len(EXPECTED_FEATURES)
            cells == LastRow.cells
        IN  /\ IsData(LastRow)
            /\ Len(cells) = n + 3
            /\ \A i \in 1..n : cells[i] = Entered(s, EXPECTED_FEATURES[i])
            /\ cells[n + 1] = local[s].probability
            /\ cells[n + 1] = model_file.proba[local[s].widgets.inputs]
            /\ ShownText(s, "risk_level", cells[n + 2])
            /\ cells[n + 2] = RiskLevel(cells[n + 1], local[s].widgets.medium,
                                        local[s].widgets.high)
            /\ cells[n + 3] = clock - 1
            /\ IsHeader(log_file.rows[1])
            /\ log_file.rows[1].cells =
                  EXPECTED_FEATURES \o << "probability", "risk_level", "timestamp" >>

C4_Witness ==
    \E s \in Sessions :
        /\ pc[s] = "log_release"
        /\ EXPECTED_FEATURES # DashboardFeatures
        /\ local[s].widgets.inputs = UpperInputs
        /\ local[s].widgets.medium > local[s].widgets.high
        /\ local[s].mode = "a"

RunOver(s) == pc[s] \in { "done", "halted", "crashed" }

\* The run of s pressed the button, passed the schema check and got its
\* probability.
Predicted(s) ==
    /\ local[s].widgets.button
    /\ SchemaMatches(Frame(DashboardFeatures, local[s].widgets.inputs))
    /\ ~ShownText(s, "error", "Feature mismatch")
    /\ ~ShownText(s, "error", "Prediction failed")
    /\ local[s].probability # NoValue

\* C5: a streamlit_app run that is over has written one row to the log, after
\* the rows that were there, if the button was pressed, the schema check
\* passed and predict_proba returned, and has left the log as it was
\* otherwise; a run whose SHAP step raised wrote its row before and the row
\* stays.
C5_OneRowIffPredicted ==
    \A s \in Sessions : IsApp(s) =>
        /\ wrote[s] <= 1
        /\ RunOver(s) =>
             IF Predicted(s)
             THEN /\ wrote[s] = 1
                  /\ Len(DataRows(log_file.rows)) = Len(DataRows(file_at_start[s])) + 1
                  /\ IsPrefix(file_at_start[s], log_file.rows)
                  /\ LastRow.cells = Values(local[s].log_entry)
             ELSE /\ wrote[s] = 0
                  /\ log_file.rows = file_at_start[s]
        /\ local[s].shap_failed =>
             /\ wrote[s] = 1
             /\ LastRow.cells = Values(local[s].log_entry)

C5_Witness ==
    \E s \in Sessions :
        /\ IsApp(s) /\ pc[s] = "done"
        /\ local[s].shap_failed
        /\ wrote[s] = 1
        /\ Len(file_at_start[s]) >= 2

LaterSections ==
    { "alert", "shap_chart", "warning", "monitoring", "trend_chart", "info",
      "importance", "insights" }

\* C6: a streamlit_app run whose resource loading or prediction raised shows
\* the error as its last element and is halted there: it shows no risk level,
\* writes nothing to the log and renders none of the later sections; a run
\* goes past loading only with the resources and past the prediction only
\* with a probability.
C6_FailureHalts ==
    \A s \in Sessions : IsApp(s) =>
        /\ \A msg \in { "Model loading failed", "Prediction failed" } :
             ShownText(s, "error", msg) =>
                /\ pc[s] = "halted"
                /\ screen[s][Len(screen[s])] = Elem("error", msg)
                /\ ~Shown(s, "risk_level")
                /\ wrote[s] = 0
                /\ log_file.rows = file_at_start[s]
                /\ \A el \in LaterSections : ~Shown(s, el)
        /\ (pc[s] \notin { "load", "halted" }) => cached
        /\ (pc[s] = "halted" /\ ~cached) => ShownText(s, "error", "Model loading failed")
        /\ (Shown(s, "risk_level") \/ InLogPrediction(s)) => local[s].probability # NoValue

C6_Witness ==
    \E s \in Sessions :
        /\ IsApp(s) /\ pc[s] = "halted"
        /\ ShownText(s, "error", "Prediction failed")
        /\ file_at_start[s] # << >>

ShownBanner(status) ==
    \E i \in 1..Len(delivery.screen) : delivery.screen[i] = Elem("banner", status)

\* The status the two sliders ask for.
SliderStatus(risk_score, medium_threshold, high_threshold) ==
    IF risk_score >= high_threshold THEN "HIGH RISK"
    ELSE IF risk_score >= medium_threshold THEN "MODERATE RISK"
    ELSE "LOW RISK"

\* C8: the banner of run_delivery_dashboard is HIGH RISK exactly when the risk
\* score is at or above the high-threshold slider, MODERATE RISK when it is
\* below that and at or above the medium-threshold slider, LOW RISK otherwise.
C8_BannerFollowsSliders ==
    delivery.pc \in { "shap", "global", "done", "crashed" } /\ delivery.status # "" =>
        /\ ShownBanner(delivery.status)
        /\ delivery.status = SliderStatus(delivery.risk_score, delivery.medium_threshold,
                                          delivery.high_threshold)

\* The fixed load order: orders, customers, order_items, payments, reviews,
\* products, sellers.
ClaimedOrder ==
    << "olist_orders_dataset.csv", "olist_customers_dataset.csv",
       "olist_order_items_dataset.csv", "olist_order_payments_dataset.csv",
       "olist_order_reviews_dataset.csv", "olist_products_dataset.csv",
       "olist_sellers_dataset.csv" >>

ClaimedKeys ==
    { "orders", "customers", "order_items", "payments", "reviews", "products",
      "sellers" }

\* The first file of that order that is not on the disk.
FirstMissing ==
    ClaimedOrder[CHOOSE i \in 1..Len(ClaimedOrder) :
                    /\ ClaimedOrder[i] \notin loader.files
                    /\ \A j \in 1..(i - 1) : ClaimedOrder[j] \in loader.files]

\* C9: the constructor raises exactly when the data directory does not exist;
\* load_all raises for the first missing file of the load order and leaves no
\* partial result; with all seven files it returns exactly the seven keys.
C9_LoaderValidatesFiles ==
    /\ ~loader.dir_exists => loader.pc \in { "new", "raised" }
    /\ (loader.pc = "raised" /\ ~loader.dir_exists) =>
          /\ loader.raised = "FileNotFoundError: Data directory not found"
          /\ loader.idx = 0
    /\ (loader.pc = "raised" /\ loader.dir_exists) =>
          /\ Range(ClaimedOrder) \ loader.files # { }
          /\ loader.raised = FirstMissing
          /\ loader.result = << >> /\ loader.datasets = << >>
    /\ loader.pc = "returned" =>
          /\ Range(ClaimedOrder) \subseteq loader.files
          /\ Range(loader.result) = ClaimedKeys
          /\ Len(loader.result) = Cardinality(ClaimedKeys)
    /\ (loader.pc = "load_all" /\ loader.idx > 1) =>
          \A j \in 1..(loader.idx - 1) : ClaimedOrder[j] \in loader.files

C9_Witness ==
    /\ loader.pc = "raised"
    /\ loader.raised = "olist_order_payments_dataset.csv"
    /\ "olist_sellers_dataset.csv" \notin loader.files

\* A customer purchased again within the window: one of the customer's orders
\* is followed by a later one at most window_days whole days after it, a later
\* order of the same day included.
PurchasedAgain(orders, window_days, c) ==
    \E i, j \in 1..Len(orders) :
       /\ i # j
       /\ orders[i].customer_unique_id = c
       /\ orders[j].customer_unique_id = c
       /\ orders[j].order_purchase_timestamp > orders[i].order_purchase_timestamp
       /\ (orders[j].order_purchase_timestamp - orders[i].order_purchase_timestamp)
             \div HoursPerDay <= window_days

\* C10: create_retention_target returns one row per customer, with retained = 1
\* exactly when the customer purchased again within the window (a later order
\* of the same day included) and 0 otherwise.
C10_RetainedIffPurchasedAgain ==
    retention.pc = "done" =>
        /\ Len(retention.result) = Cardinality(CustomersOf(retention.orders))
        /\ \A k \in 1..Len(retention.result) :
              LET row == retention.result[k] IN
                 /\ row.customer_unique_id \in CustomersOf(retention.orders)
                 /\ row.retained =
                       IF PurchasedAgain(retention.orders, retention.window_days,
                                         row.customer_unique_id)
                       THEN 1 ELSE 0

FeatureNames ==
    << "customer_unique_id", "frequency", "recency_days", "customer_lifetime_days",
       "total_spent", "avg_order_value", "avg_review_score" >>

\* C11: build_retention_features returns one row per distinct
\* customer_unique_id of orders, with exactly the seven named columns (so no
\* datetime column), and no missing value: total_spent and avg_order_value are
\* 0 for a customer without payments, avg_review_score is 0 for a customer
\* without reviews.
C11_OneCompleteRowPerCustomer ==
    features.pc = "done" =>
        LET out == features.result
            ids == CustomersOf(features.orders)
        IN  /\ out.columns = FeatureNames
            /\ Len(out.rows) = Cardinality(ids)
            /\ { out.rows[i]["customer_unique_id"] : i \in 1..Len(out.rows) } = ids
            /\ \A i \in 1..Len(out.rows) :
                  LET row == out.rows[i] IN
                  /\ DOMAIN row = Range(FeatureNames)
                  /\ \A c \in DOMAIN row : row[c] # NaN
                  /\ row["customer_unique_id"] \notin CustomersOf(features.payments)
                        => row["total_spent"] = 0 /\ row["avg_order_value"] = 0
                  /\ row["customer_unique_id"] \notin CustomersOf(features.reviews)
                        => row["avg_review_score"] = 0

\* Two customers are returned: one with payments and reviews, one with neither.
C11_Witness ==
    /\ features.pc = "done"
    /\ Len(features.result.rows) = 2
    /\ \E i, j \in 1..2 :
          /\ features.result.rows[i]["total_spent"] > 0
          /\ features.result.rows[i]["avg_review_score"] > 0
          /\ features.result.rows[j]["customer_unique_id"]
                \notin CustomersOf(features.payments) \cup CustomersOf(features.reviews)

\* C12: transform(X), for an orders table with the five datetime columns and
\* no call of merge_additional_data, completes and returns a table whose
\* columns are FEATURE_COLUMNS followed by is_delayed.
C12_TransformReturnsRegistry ==
    (engineer.call = "transform" /\ engineer.pc \in { "done", "raised" }) =>
        /\ engineer.pc = "done"
        /\ engineer.result.columns = FEATURE_COLUMNS \o << "is_delayed" >>

\* C13: with predict_before_delivery True the working table never has the
\* column total_delivery_days, and for either value the final dataset has no
\* column computed from order_delivered_customer_date except is_delayed.
C13_NoLeakage ==
    /\ engineer.predict_before_delivery =>
          "total_delivery_days" \notin Range(engineer.df.columns)
    /\ engineer.pc = "done" =>
          \A c \in Range(engineer.result.columns) \ { "is_delayed" } :
             "order_delivered_customer_date" \notin engineer.result.origin[c]

\* A final dataset with a row was returned from a working table that holds
\* total_delivery_days.
C13_Witness ==
    /\ engineer.pc = "done"
    /\ ~engineer.predict_before_delivery
    /\ "total_delivery_days" \in Range(engineer.df.columns)
    /\ "is_delayed" \in Range(engineer.result.columns)
    /\ engineer.result.rows # << >>

Levels == { "High", "Medium", "Low" }

\* The order of the risk classes, whatever the dashboard calls them.
ClassOf(label) ==
    CASE label \in { "High", "High Risk", "HIGH RISK" } -> 3
      [] label \in { "Medium", "Medium Risk", "MODERATE RISK" } -> 2
      [] label \in { "Low", "Low Risk", "LOW RISK" } -> 1

\* C14: the risk level is exactly one of High, Medium, Low: High iff the
\* probability is at least the high threshold, Medium iff it is below the
\* high threshold and at least the medium threshold, Low iff it is below
\* both; and for fixed thresholds the level does not decrease as the
\* probability grows.
C14_RiskLevelTotalAndMonotone ==
    risk.pc # "start" =>
        LET p == risk.probability
            m == risk.medium_threshold
            h == risk.high_threshold
        IN  /\ risk.level \in Levels
            /\ risk.level = "High" <=> p >= h
            /\ risk.level = "Medium" <=> (p < h /\ p >= m)
            /\ risk.level = "Low" <=> (p < h /\ p < m)
            /\ \A q \in 0..100 :
                  q >= p => ClassOf(RiskLevel(q, m, h)) >= ClassOf(risk.level)

\* A probability equal to the medium threshold, below the high one, is Medium.
C14_Witness ==
    /\ risk.pc = "done"
    /\ risk.probability = risk.medium_threshold
    /\ risk.medium_threshold < risk.high_threshold
    /\ risk.level = "Medium"

\* C15: at every position of the two sliders the medium threshold is below
\* the high threshold, so each of Low, Medium and High is the level of some
\* probability.
C15_ThresholdsOrdered ==
    risk.pc # "start" =>
        /\ risk.medium_threshold < risk.high_threshold
        /\ \A l \in Levels :
              \E p \in 0..100 :
                 RiskLevel(p, risk.medium_threshold, risk.high_threshold) = l

\* C16: with the sliders at their defaults the three delivery dashboards give
\* one probability the same class.
C16_SameClassAtDefaults ==
    (/\ risk.pc = "done"
     /\ risk.medium_threshold = DefaultMedium
     /\ risk.high_threshold = DefaultHigh) =>
        /\ ClassOf(risk.level) = ClassOf(risk.training)
        /\ ClassOf(risk.training) = ClassOf(risk.status)

\* At the defaults a probability equal to the high threshold is High in all three.
C16_Witness ==
    /\ risk.pc = "done"
    /\ risk.medium_threshold = DefaultMedium
    /\ risk.high_threshold = DefaultHigh
    /\ risk.probability = DefaultHigh
    /\ risk.level = "High"
    /\ risk.training = "High Risk"
    /\ risk.status = "HIGH RISK"

\* The run of s is past its schema validation.
Validated(s) ==
    /\ IsApp(s)
    /\ local[s].input_data # << >>
    /\ pc[s] # "schema"

\* C17: when the set of input columns differs from the model's feature set,
\* the run shows the error and halts with no prediction made and no log row
\* written; otherwise the frame that goes to predict_proba has exactly the
\* columns of EXPECTED_FEATURES in the model's order, each with the value the
\* user entered for it and none missing.
C17_SchemaValidated ==
    \A s \in Sessions :
       Validated(s) =>
          IF Range(DashboardFeatures) # Range(model_file.feature_name_)
          THEN /\ pc[s] = "halted"
               /\ screen[s][Len(screen[s])] = Elem("error", "Feature mismatch")
               /\ local[s].probability = NoValue
               /\ wrote[s] = 0
               /\ log_file.rows = file_at_start[s]
          ELSE /\ Columns(local[s].input_data) = model_file.feature_name_
               /\ Len(local[s].input_data) = Len(DashboardFeatures)
               /\ \A i \in 1..Len(local[s].input_data) :
                     /\ local[s].input_data[i].val # NaN
                     /\ local[s].input_data[i].val = Entered(s, local[s].input_data[i].col)

\* A prediction was made from a frame whose columns the reindex had to reorder.
C17_Witness ==
    \E s \in Sessions :
       /\ Validated(s)
       /\ model_file.feature_name_ # DashboardFeatures
       /\ Range(model_file.feature_name_) = Range(DashboardFeatures)
       /\ local[s].probability # NoValue
       /\ local[s].widgets.inputs = DefaultInputs

\* The timestamp is the last cell of a data row.
TimestampOf(row) == row.cells[Len(row.cells)]

\* C18: the data rows of the log are in non-decreasing order of timestamp.
C18_RowsInTimestampOrder ==
    LET rows == DataRows(log_file.rows) IN
    \A i, j \in 1..Len(rows) : i < j => TimestampOf(rows[i]) <= TimestampOf(rows[j])

\* C18, amended: the entry a run writes carries a timestamp that is not
\* earlier than the timestamp of any data row that was in the log when the
\* run began.
C18_NotBeforeEarlierRequests ==
    \A s \in Sessions :
       local[s].log_entry # << >> =>
          LET before == DataRows(file_at_start[s]) IN
          \A i \in 1..Len(before) :
             TimestampOf(before[i]) <= CellOf(local[s].log_entry, "timestamp")

\* A run that began with a data row in the log has written its own row, and
\* the log holds two data rows.
C18_Witness ==
    \E s \in Sessions :
       /\ DataRows(file_at_start[s]) # << >>
       /\ wrote[s] = 1
       /\ Len(DataRows(log_file.rows)) >= 2

\* C19: when the monitoring section of a run reads the log, no other run has
\* the file open for its write, and the file read has its header row first.
C19_MonitoringReadsSettledFile ==
    [][\A s \in Sessions :
          (pc[s] = "mon_read" /\ pc'[s] # "mon_read") =>
             /\ \A t \in Sessions \ { s } : pc[t] # "log_write"
             /\ log_file.rows # << >>
             /\ IsHeader(log_file.rows[1])]_vars

PanelShown(el, val) ==
    \E i \in 1..Len(panels.screen) :
       panels.screen[i].el = el /\ panels.screen[i].val = val

\* C20: for a table of one customer or more, a run of run_retention_dashboard
\* ends having rendered the global SHAP plot and a run of
\* run_revenue_dashboard ends having rendered the customer profile panel.
C20_DashboardsRunToCompletion ==
    (panels.pc \in { "done", "crashed" } /\ panels.customers >= 1) =>
        /\ panels.pc = "done"
        /\ panels.dashboard = "retention" => PanelShown("pyplot", "fig_global")
        /\ panels.dashboard = "revenue" => PanelShown("metric", "Segment")

====
